---- MODULE Spec2Model ----
(***************************************************************************)
(* Face attendance server (src/main.py): gallery loading, face matching,   *)
(* and the attendance recorder writing attendance.csv.                     *)
(*                                                                         *)
(* A string is the sequence of its pieces: each dot, carriage return       *)
(* ("CR") and line feed ("LF") is a piece of its own, and so is each       *)
(* maximal run of other characters between them.  The filename handling    *)
(* and the CSV write/read round trip work on these pieces, so they are     *)
(* computed and not assumed.                                               *)
(***************************************************************************)
EXTENDS Integers, Sequences, FiniteSets, TLC

VARIABLES
    phase,                  \* "startup" before the startup event, then "serving"
    dir_exists,             \* os.path.exists(KNOWN_FACES_DIR)
    dir_listing,            \* os.listdir(KNOWN_FACES_DIR) with what the encoder does on each file
    known_face_encodings,   \* global list, line 19
    known_face_names,       \* global list, line 20
    attendance_exists,      \* os.path.isfile(ATTENDANCE_FILE)
    attendance_rows,        \* rows of ATTENDANCE_FILE as written, in file order
    now,                    \* datetime.now(): [date, time]
    last,                   \* the last completed operation and its outcome
    req                     \* the requests in flight, one per worker

vars == <<phase, dir_exists, dir_listing, known_face_encodings, known_face_names,
          attendance_exists, attendance_rows, now, last, req>>

---------------------------------------------------------------------------
(* Bounds *)

\* files in the known_faces directory
MaxFiles == 2

\* faces detected in one image
MaxFaces == 1

\* calendar days the clock runs through
MaxDate == 2

\* rows of attendance.csv after which no request is started
MaxRows == 4

---------------------------------------------------------------------------
(* Strings *)

Unknown == <<"Unknown">>

HeaderRow == << <<"Name">>, <<"Date">>, <<"Time">> >>

ImageExtensions ==
    { <<".", "jpg">>, <<".", "jpeg">>, <<".", "png">> }

\* str.lower() on one piece; the pieces with upper-case letters in them
lower_piece(c) ==
    CASE c = "Jpg"     -> "jpg"
      [] c = "PNG"     -> "png"
      [] c = "A"       -> "a"
      [] c = "Unknown" -> "unknown"
      [] OTHER         -> c

lower(s) == [i \in DOMAIN s |-> lower_piece(s[i])]

endswith(s, suffix) ==
    /\ Len(s) >= Len(suffix)
    /\ SubSeq(s, Len(s) - Len(suffix) + 1, Len(s)) = suffix

\* str.rfind(".") as a 1-based index, 0 when there is no dot
rfind_dot(s) ==
    LET dots == {i \in DOMAIN s : s[i] = "."}
    IN  IF dots = {} THEN 0 ELSE CHOOSE i \in dots : \A j \in dots : j <= i

\* os.path.splitext(file)[0] for a name without a path separator: the
\* extension starts at the last dot unless only dots precede it
splitext_root(s) ==
    LET dotIndex == rfind_dot(s)
    IN  IF dotIndex > 0 /\ \E j \in 1..(dotIndex - 1) : s[j] # "."
        THEN SubSeq(s, 1, dotIndex - 1)
        ELSE s

\* strftime("%Y-%m-%d"): day d of January 2024
strftime_date(d) ==
    <<"2024-01-", ToString(d \div 10), ToString(d % 10)>>

\* strftime("%H:%M:%S"): t seconds after midnight
strftime_time(t) ==
    <<"00:00:", ToString(t \div 10), ToString(t % 10)>>

---------------------------------------------------------------------------
(* The known_faces directory *)

FileNames ==
    { <<"a", ".", "jpg">>,
      <<"a", ".", "PNG">>,
      <<"b", ".", "jpeg">>,
      <<"b", ".", "x", ".", "Jpg">>,
      <<"c", ".", "txt">>,
      <<".", "jpg">>,
      <<"jpg">> }

\* the times of day, in seconds after midnight, at which the clock is read
TimesOfDay == {0, 1}

Vectors == { <<0, 0>>, <<3, 4>>, <<6, 0>>, <<12, 0>> }

\* what load_image_file and face_encodings do on one file: raise, or return
\* a list of vectors (empty when no face is found)
EncodingLists ==
    {<<>>} \cup {<<v>> : v \in Vectors}
           \cup { <<v, w>> : v \in {<<0, 0>>, <<3, 4>>}, w \in {<<6, 0>>} }

EncoderResults ==
    {[raises |-> TRUE, encodings |-> <<>>]}
        \cup {[raises |-> FALSE, encodings |-> e] : e \in EncodingLists}

DirEntries == [file : FileNames, result : EncoderResults]

\* a directory holds each filename at most once
Listings ==
    UNION { { l \in [1..n -> DirEntries] :
                \A i, j \in 1..n : i # j => l[i].file # l[j].file } : n \in 0..MaxFiles }

---------------------------------------------------------------------------
(* load_known_faces *)

\* the body of the for loop, lines 36-47, on one directory entry
load_file_swapped(f, encs, names) ==
    IF \E e \in ImageExtensions : endswith(lower(f.file), e)
    THEN IF f.result.raises
         THEN [encs |-> encs, names |-> names]
         ELSE [encs  |-> IF Len(f.result.encodings) > 0 THEN Append(encs, f.result.encodings[1]) ELSE encs,
               names |-> Append(names, splitext_root(f.file))]
    ELSE [encs |-> encs, names |-> names]

load_file(f, encs, names) ==
    IF \E e \in ImageExtensions : endswith(lower(f.file), e)
    THEN IF f.result.raises
         THEN [encs |-> encs, names |-> names]
         ELSE IF Len(f.result.encodings) > 0
              THEN [encs  |-> Append(encs, f.result.encodings[1]),
                    names |-> Append(names, splitext_root(f.file))]
              ELSE [encs |-> encs, names |-> names]
    ELSE [encs |-> encs, names |-> names]

RECURSIVE load_files(_, _, _)
load_files(files, encs, names) ==
    IF files = <<>>
    THEN [encs |-> encs, names |-> names]
    ELSE LET g == load_file(Head(files), encs, names)
         IN  load_files(Tail(files), g.encs, g.names)

NoRequest == [pc |-> "idle"]

Idle == [op |-> "none"]

Procs == {1, 2}

\* startup_event -> load_known_faces
load_known_faces ==
    /\ phase = "startup"
    /\ IF ~dir_exists
       THEN /\ dir_exists' = TRUE
            /\ dir_listing' = <<>>
            /\ UNCHANGED <<known_face_encodings, known_face_names>>
       ELSE LET g == load_files(dir_listing, known_face_encodings, known_face_names)
            IN  /\ known_face_encodings' = g.encs
                /\ known_face_names' = g.names
                /\ UNCHANGED <<dir_exists, dir_listing>>
    /\ phase' = "serving"
    /\ last' = [op |-> "load_known_faces", created |-> ~dir_exists]
    /\ UNCHANGED <<attendance_exists, attendance_rows, now, req>>

InitLoad ==
    /\ phase = "startup"
    /\ dir_exists \in BOOLEAN
    /\ dir_listing \in (IF dir_exists THEN Listings ELSE {<<>>})
    /\ known_face_encodings = <<>>
    /\ known_face_names = <<>>
    /\ attendance_exists = FALSE
    /\ attendance_rows = <<>>
    /\ now = [date |-> 1, time |-> 0]
    /\ last = Idle
    /\ req = [p \in Procs |-> NoRequest]

NextLoad == load_known_faces

SpecLoad == InitLoad /\ [][NextLoad]_vars

---------------------------------------------------------------------------
(* Face matching, lines 108-115 and 138-144 *)

\* compare_faces' default tolerance 0.6, in tenths
Tolerance == 6

\* square of the Euclidean distance; distances are only compared, with each
\* other and with the tolerance, so the squares decide the same way
distance_sq(v, w) == (v[1] - w[1]) * (v[1] - w[1]) + (v[2] - w[2]) * (v[2] - w[2])

face_distance(encodings, face_encoding) ==
    [i \in DOMAIN encodings |-> distance_sq(encodings[i], face_encoding)]

compare_faces(encodings, face_encoding) ==
    [i \in DOMAIN encodings |->
        face_distance(encodings, face_encoding)[i] <= Tolerance * Tolerance]

\* np.argmin: a left-to-right scan that keeps the first smallest element
RECURSIVE argmin_scan(_, _, _)
argmin_scan(d, i, best) ==
    IF i > Len(d) THEN best
    ELSE argmin_scan(d, i + 1, IF d[i] < d[best] THEN i ELSE best)

argmin(d) == argmin_scan(d, 2, 1)

\* the name process_frame gives to one face, lines 108-115
process_frame_first_match(encodings, names, face_encoding) ==
    LET matches == compare_faces(encodings, face_encoding)
        hits    == {i \in DOMAIN matches : matches[i]}
    IN  IF hits # {}
        THEN names[CHOOSE i \in hits : \A j \in hits : i <= j]
        ELSE Unknown

process_frame_name(encodings, names, face_encoding) ==
    LET matches        == compare_faces(encodings, face_encoding)
        face_distances == face_distance(encodings, face_encoding)
    IN  IF Len(face_distances) > 0
        THEN LET best_match_index == argmin(face_distances)
             IN  IF matches[best_match_index]
                 THEN names[best_match_index]
                 ELSE Unknown
        ELSE Unknown

\* the name recognize_from_file gives to one face, lines 138-144
recognize_from_file_lowercase(encodings, names, face_encoding) ==
    LET matches        == compare_faces(encodings, face_encoding)
        face_distances == face_distance(encodings, face_encoding)
    IN  IF Len(face_distances) > 0
        THEN LET best_match_index == argmin(face_distances)
             IN  IF matches[best_match_index]
                 THEN names[best_match_index]
                 ELSE lower(Unknown)
        ELSE lower(Unknown)

recognize_from_file_name(encodings, names, face_encoding) ==
    LET matches        == compare_faces(encodings, face_encoding)
        face_distances == face_distance(encodings, face_encoding)
    IN  IF Len(face_distances) > 0
        THEN LET best_match_index == argmin(face_distances)
             IN  IF matches[best_match_index]
                 THEN names[best_match_index]
                 ELSE Unknown
        ELSE Unknown

---------------------------------------------------------------------------
(* The attendance file *)

\* open(ATTENDANCE_FILE, 'r') reads in universal-newlines mode: "\r\n" and a
\* lone "\r" both arrive as "\n", inside quoted fields too
RECURSIVE universal_newlines(_)
universal_newlines(s) ==
    IF \A i \in DOMAIN s : s[i] # "CR" THEN s
    ELSE IF Head(s) = "CR"
         THEN IF Len(s) >= 2 /\ s[2] = "LF"
              THEN <<"LF">> \o universal_newlines(SubSeq(s, 3, Len(s)))
              ELSE <<"LF">> \o universal_newlines(Tail(s))
         ELSE <<Head(s)>> \o universal_newlines(Tail(s))

\* csv.reader over the file, lines 63-64: the writer's quoting is undone
\* field by field, on the text the file object delivers
csv_reader(rows) ==
    [i \in DOMAIN rows |-> [j \in DOMAIN rows[i] |-> universal_newlines(rows[i][j])]]

\* the scan of lines 65-68
scan_name_only(rows, name, date_string) ==
    \E i \in DOMAIN rows : Len(rows[i]) > 0 /\ rows[i][1] = name

scan(rows, name, date_string) ==
    \E i \in DOMAIN rows :
        Len(rows[i]) > 0 /\ rows[i][1] = name /\ rows[i][2] = date_string

\* what lines 73-75 write
written_rows(file_exists, name, date_string, time_string) ==
    (IF ~file_exists THEN <<HeaderRow>> ELSE <<>>)
        \o << <<name, date_string, time_string>> >>

\* open(ATTENDANCE_FILE, 'a'): what is written goes to the end of the file
file_truncate(rows, new_rows) == new_rows

file_append(rows, new_rows) == rows \o new_rows

\* line 51
is_unknown_never(name) == FALSE

is_unknown(name) == name = Unknown

\* mark_attendance run from line 51 to its return with no other access to
\* the file in between; store is [exists, rows], clock a reading of now
mark_attendance(store, name, clock) ==
    IF is_unknown(name) THEN store
    ELSE LET date_string    == strftime_date(clock.date)
             time_string    == strftime_time(clock.time)
             file_exists    == store.exists
             already_marked == file_exists /\ scan(csv_reader(store.rows), name, date_string)
         IN  IF ~already_marked
             THEN [exists |-> TRUE,
                   rows   |-> file_append(store.rows,
                                  written_rows(file_exists, name, date_string, time_string))]
             ELSE store

\* the loop of lines 107-122 / 137-147 run to its end: the names given to
\* the faces, and the store after a mark_attendance call for each (the
\* store after one call is bound as a value before the loop goes on)
RECURSIVE process_frame_loop(_, _, _, _)
process_frame_loop(faces, store, clock, results) ==
    IF faces = <<>>
    THEN [store |-> store, results |-> results]
    ELSE LET name == process_frame_name(known_face_encodings, known_face_names, Head(faces))
             step(after) == process_frame_loop(Tail(faces), after, clock, Append(results, name))
         IN  CHOOSE r \in {step(after) : after \in {mark_attendance(store, name, clock)}} : TRUE

RECURSIVE recognize_from_file_loop(_, _, _, _)
recognize_from_file_loop(faces, store, clock, results) ==
    IF faces = <<>>
    THEN [store |-> store, results |-> results]
    ELSE LET name == recognize_from_file_name(known_face_encodings, known_face_names, Head(faces))
             step(after) == recognize_from_file_loop(Tail(faces), after, clock, Append(results, name))
         IN  CHOOSE r \in {step(after) : after \in {mark_attendance(store, name, clock)}} : TRUE

Store == [exists |-> attendance_exists, rows |-> attendance_rows]

\* the encodings of the faces that turn up in submitted images
FaceVectors == { <<3, 4>>, <<6, 0>>, <<12, 0>> }

FaceLists == UNION { [1..n -> FaceVectors] : n \in 0..MaxFaces }

\* an uploaded frame: whether cv2.imdecode yields an image, and the
\* encodings of the faces found in it
Payloads ==
    {[decodable |-> FALSE, faces |-> <<>>]}
        \cup {[decodable |-> TRUE, faces |-> f] : f \in FaceLists}

\* a path on the server: whether it exists, whether it loads as an image,
\* and the encodings of the faces found in it
Paths ==
    {[exists |-> FALSE, decodable |-> FALSE, faces |-> <<>>],
     [exists |-> TRUE, decodable |-> FALSE, faces |-> <<>>]}
        \cup {[exists |-> TRUE, decodable |-> TRUE, faces |-> f] : f \in FaceLists}

---------------------------------------------------------------------------
(* The server, one request at a time *)

\* POST /api/process_frame. cv2.imdecode returns None for bytes that are
\* not an image and cv2.cvtColor then raises; nothing catches it, so the
\* response is 500.
process_frame ==
    /\ phase = "serving"
    /\ Len(attendance_rows) < MaxRows
    /\ \E payload \in Payloads :
         IF ~payload.decodable
         THEN /\ last' = [op |-> "process_frame", status |-> 500, input |-> payload,
                          names |-> <<>>]
              /\ UNCHANGED <<attendance_exists, attendance_rows>>
         ELSE \E r \in {process_frame_loop(payload.faces, Store, now, <<>>)} :
                  /\ attendance_exists' = r.store.exists
                  /\ attendance_rows' = r.store.rows
                  /\ last' = [op |-> "process_frame", status |-> 200, input |-> payload,
                              names |-> r.results]
    /\ UNCHANGED <<phase, dir_exists, dir_listing, known_face_encodings,
                   known_face_names, now, req>>

\* POST /api/recognize_from_file
recognize_from_file ==
    /\ phase = "serving"
    /\ Len(attendance_rows) < MaxRows
    /\ \E file_path \in Paths :
         IF ~file_path.exists
         THEN /\ last' = [op |-> "recognize_from_file", status |-> 404, input |-> file_path,
                          names |-> <<>>]
              /\ UNCHANGED <<attendance_exists, attendance_rows>>
         ELSE IF ~file_path.decodable
         THEN /\ last' = [op |-> "recognize_from_file", status |-> 500, input |-> file_path,
                          names |-> <<>>]
              /\ UNCHANGED <<attendance_exists, attendance_rows>>
         ELSE \E r \in {recognize_from_file_loop(file_path.faces, Store, now, <<>>)} :
                  /\ attendance_exists' = r.store.exists
                  /\ attendance_rows' = r.store.rows
                  /\ last' = [op |-> "recognize_from_file", status |-> 200,
                              input |-> file_path, names |-> r.results]
    /\ UNCHANGED <<phase, dir_exists, dir_listing, known_face_encodings,
                   known_face_names, now, req>>

\* the wall clock moves on: later the same day, or to the next day
tick ==
    /\ phase = "serving"
    /\ \/ /\ now.time + 1 \in TimesOfDay
          /\ now' = [now EXCEPT !.time = @ + 1]
       \/ /\ now.date < MaxDate
          /\ now' = [date |-> now.date + 1, time |-> 0]
    /\ last' = [op |-> "tick"]
    /\ UNCHANGED <<phase, dir_exists, dir_listing, known_face_encodings,
                   known_face_names, attendance_exists, attendance_rows, req>>

File(name, encodings) ==
    [file |-> name, result |-> [raises |-> FALSE, encodings |-> encodings]]

\* the directories the server is started on
ServeListings ==
    { <<>>,
      << File(<<"a", ".", "jpg">>, << <<0, 0>> >>),
         File(<<"b", ".", "jpeg">>, << <<6, 0>> >>) >>,
      << File(<<"a", ".", "jpg">>, << <<6, 0>> >>),
         File(<<"a", ".", "PNG">>, << <<0, 0>>, <<6, 0>> >>) >>,
      << File(<<"c", ".", "txt">>, << <<0, 0>> >>),
         File(<<"b", ".", "x", ".", "Jpg">>, << <<12, 0>> >>) >> }

Init ==
    /\ phase = "startup"
    /\ dir_exists \in BOOLEAN
    /\ dir_listing \in (IF dir_exists THEN ServeListings ELSE {<<>>})
    /\ known_face_encodings = <<>>
    /\ known_face_names = <<>>
    /\ attendance_exists = FALSE
    /\ attendance_rows = <<>>
    /\ now = [date |-> 1, time |-> 0]
    /\ last = Idle
    /\ req = [p \in Procs |-> NoRequest]

Next ==
    \/ load_known_faces
    \/ process_frame
    \/ recognize_from_file
    \/ tick

Spec == Init /\ [][Next]_vars

---------------------------------------------------------------------------
(* The recorder on its own: mark_attendance called with any name *)

CallNames ==
    { Unknown, <<"a">>, <<"b">>, <<"a", "CR", "b">>, <<"a", "LF", "b">> }

mark_attendance_call ==
    /\ Len(attendance_rows) < MaxRows
    /\ \E name \in CallNames :
         \E after \in {mark_attendance(Store, name, now)} :
            /\ attendance_exists' = after.exists
            /\ attendance_rows' = after.rows
            /\ last' = [op |-> "mark_attendance", name |-> name, date |-> now.date,
                        time |-> now.time]
    /\ UNCHANGED <<phase, dir_exists, dir_listing, known_face_encodings,
                   known_face_names, now, req>>

InitRecorder ==
    /\ phase = "serving"
    /\ dir_exists = TRUE
    /\ dir_listing = <<>>
    /\ known_face_encodings = <<>>
    /\ known_face_names = <<>>
    /\ attendance_exists = FALSE
    /\ attendance_rows = <<>>
    /\ now = [date |-> 1, time |-> 0]
    /\ last = Idle
    /\ req = [p \in Procs |-> NoRequest]

NextRecorder ==
    \/ mark_attendance_call
    \/ tick

SpecRecorder == InitRecorder /\ [][NextRecorder]_vars

---------------------------------------------------------------------------
(* The server with requests that overlap: each worker runs its handler     *)
(* line by line, and the steps of the workers interleave.  The images here *)
(* hold at most one face, and the clock is read to the day.                *)

Unchanged_server == UNCHANGED <<phase, dir_exists, dir_listing, known_face_encodings,
                                known_face_names, now, last>>

Unchanged_file == UNCHANGED <<attendance_exists, attendance_rows>>

OneFaceLists == {<<>>} \cup {<<v>> : v \in {<<3, 4>>, <<12, 0>>}}

\* mark_attendance returns to the loop of its handler, lines 119-122 / 147
returned(r) ==
    [pc |-> "loop", op |-> r.op, faces |-> Tail(r.faces),
     results |-> Append(r.results, r.name)]

\* lines 92-105: the request arrives and the image is decoded; an image
\* that does not decode ends the request at once
begin_process_frame(p) ==
    /\ phase = "serving"
    /\ req[p].pc = "idle"
    /\ Len(attendance_rows) < MaxRows
    /\ \E payload \in Payloads :
         /\ payload.faces \in OneFaceLists
         /\ IF ~payload.decodable
            THEN UNCHANGED req
            ELSE req' = [req EXCEPT ![p] =
                           [pc |-> "loop", op |-> "process_frame",
                            faces |-> payload.faces, results |-> <<>>]]
    /\ Unchanged_server
    /\ Unchanged_file

\* lines 129-136; a path that does not exist or does not load ends the
\* request at once
begin_recognize_from_file(p) ==
    /\ phase = "serving"
    /\ req[p].pc = "idle"
    /\ Len(attendance_rows) < MaxRows
    /\ \E file_path \in Paths :
         /\ file_path.faces \in OneFaceLists
         /\ IF ~file_path.exists \/ ~file_path.decodable
            THEN UNCHANGED req
            ELSE req' = [req EXCEPT ![p] =
                           [pc |-> "loop", op |-> "recognize_from_file",
                            faces |-> file_path.faces, results |-> <<>>]]
    /\ Unchanged_server
    /\ Unchanged_file

\* lines 107-117 / 137-146: the next face is named and mark_attendance is
\* called; lines 124 / 149, the response, when no face is left
loop(p) ==
    /\ req[p].pc = "loop"
    /\ IF req[p].faces = <<>>
       THEN req' = [req EXCEPT ![p] = NoRequest]
       ELSE LET face_encoding == Head(req[p].faces)
                name == IF req[p].op = "process_frame"
                        THEN process_frame_name(known_face_encodings, known_face_names,
                                                face_encoding)
                        ELSE recognize_from_file_name(known_face_encodings, known_face_names,
                                                      face_encoding)
            IN  req' = [req EXCEPT ![p] =
                           [pc |-> "mark_attendance", op |-> req[p].op,
                            faces |-> req[p].faces, results |-> req[p].results,
                            name |-> name]]
    /\ Unchanged_server
    /\ Unchanged_file

\* lines 51-56
ma_enter(p) ==
    /\ req[p].pc = "mark_attendance"
    /\ IF is_unknown(req[p].name)
       THEN req' = [req EXCEPT ![p] = returned(req[p])]
       ELSE req' = [req EXCEPT ![p] =
                       [pc |-> "isfile", op |-> req[p].op,
                        faces |-> req[p].faces, results |-> req[p].results,
                        name |-> req[p].name,
                        date_string |-> strftime_date(now.date),
                        time_string |-> strftime_time(now.time)]]
    /\ Unchanged_server
    /\ Unchanged_file

\* lines 58-62
ma_isfile(p) ==
    /\ req[p].pc = "isfile"
    /\ req' = [req EXCEPT ![p] =
                  [pc |-> IF attendance_exists THEN "scan" ELSE "open",
                   op |-> req[p].op,
                   faces |-> req[p].faces, results |-> req[p].results,
                   name |-> req[p].name, date_string |-> req[p].date_string,
                   time_string |-> req[p].time_string,
                   file_exists |-> attendance_exists]]
    /\ Unchanged_server
    /\ Unchanged_file

\* lines 63-70: the file is read and scanned
ma_scan(p) ==
    /\ req[p].pc = "scan"
    /\ LET already_marked ==
               scan(csv_reader(attendance_rows), req[p].name, req[p].date_string)
       IN  IF already_marked
           THEN req' = [req EXCEPT ![p] = returned(req[p])]
           ELSE req' = [req EXCEPT ![p].pc = "open"]
    /\ Unchanged_server
    /\ Unchanged_file

\* line 71: opening for append creates the file when it is not there
ma_open(p) ==
    /\ req[p].pc = "open"
    /\ attendance_exists' = TRUE
    /\ req' = [req EXCEPT ![p].pc = "write"]
    /\ UNCHANGED attendance_rows
    /\ Unchanged_server

\* lines 72-76: the rows reach the file in one write when it is closed
ma_write(p) ==
    /\ req[p].pc = "write"
    /\ attendance_rows' =
            file_append(attendance_rows,
                        written_rows(req[p].file_exists, req[p].name,
                                     req[p].date_string, req[p].time_string))
    /\ req' = [req EXCEPT ![p] = returned(req[p])]
    /\ UNCHANGED attendance_exists
    /\ Unchanged_server

\* midnight passes
next_day ==
    /\ phase = "serving"
    /\ now.date < MaxDate
    /\ now' = [date |-> now.date + 1, time |-> 0]
    /\ UNCHANGED <<phase, dir_exists, dir_listing, known_face_encodings,
                   known_face_names, attendance_exists, attendance_rows, last, req>>

\* the directories the workers are started on
ConcListings ==
    { << File(<<"a", ".", "jpg">>, << <<0, 0>> >>),
         File(<<"b", ".", "jpeg">>, << <<12, 0>> >>) >>,
      << File(<<"c", ".", "txt">>, << <<0, 0>> >>),
         File(<<"b", ".", "x", ".", "Jpg">>, << <<12, 0>> >>) >> }

InitConc ==
    /\ phase = "startup"
    /\ dir_exists = TRUE
    /\ dir_listing \in ConcListings
    /\ known_face_encodings = <<>>
    /\ known_face_names = <<>>
    /\ attendance_exists = FALSE
    /\ attendance_rows = <<>>
    /\ now = [date |-> 1, time |-> 0]
    /\ last = Idle
    /\ req = [p \in Procs |-> NoRequest]

NextConc ==
    \/ load_known_faces
    \/ \E p \in Procs : begin_process_frame(p)
    \/ \E p \in Procs : begin_recognize_from_file(p)
    \/ \E p \in Procs : loop(p)
    \/ \E p \in Procs : ma_enter(p)
    \/ \E p \in Procs : ma_isfile(p)
    \/ \E p \in Procs : ma_scan(p)
    \/ \E p \in Procs : ma_open(p)
    \/ \E p \in Procs : ma_write(p)
    \/ next_day

SpecConc == InitConc /\ [][NextConc]_vars

---------------------------------------------------------------------------
(* Properties *)

IsHeader(row) == row = HeaderRow

\* the number of records in the file, as written, for a name on a date
RecordCount(rows, name, date_string) ==
    Cardinality({i \in DOMAIN rows :
                    ~IsHeader(rows[i]) /\ rows[i][1] = name /\ rows[i][2] = date_string})

IsPrefix(s, t) == Len(s) <= Len(t) /\ SubSeq(t, 1, Len(s)) = s

Handlers == {"process_frame", "recognize_from_file"}

\* C1: after mark_attendance(name) has been called, one call after another,
\* any number of times on a date with a name other than "Unknown", the file
\* holds exactly one record for that name and date.
C1_Idempotent ==
    (last.op = "mark_attendance" /\ last.name # Unknown)
        => RecordCount(attendance_rows, last.name, strftime_date(last.date)) = 1

C3_UnknownSuppressed ==
    [][\A p \in Procs :
          (/\ req[p].pc \in {"mark_attendance", "isfile", "scan", "open", "write"}
           /\ req[p].name = Unknown
           /\ req'[p] # req[p])
              => /\ attendance_rows' = attendance_rows
                 /\ attendance_exists' = attendance_exists
                 /\ req'[p].pc = "loop"]_vars

C3_Witness ==
    \E p, q \in Procs :
        /\ req[p].pc = "loop"
        /\ req[p].results = <<Unknown>>
        /\ req[q].pc = "write"

\* C4: a call of mark_attendance(name) on a date for which the file has no
\* record of that name appends exactly one record for the name and the
\* date and keeps every other row, whatever records there are for other
\* dates or other names.
C4_CrossDay ==
    [][(/\ last'.op = "mark_attendance"
        /\ last'.name # Unknown
        /\ RecordCount(attendance_rows, last'.name, strftime_date(last'.date)) = 0)
           => /\ RecordCount(attendance_rows', last'.name, strftime_date(last'.date)) = 1
              /\ IsPrefix(attendance_rows, attendance_rows')]_vars

C6_AppendOnly ==
    [][/\ IsPrefix(attendance_rows, attendance_rows')
       /\ attendance_exists => attendance_exists']_vars

C6_Witness ==
    /\ Len(attendance_rows) >= 3
    /\ \E p \in Procs : req[p].pc = "loop" /\ req[p].results # <<>>
                          /\ req[p].results[1] # Unknown

\* C7: process_frame answers a payload that does not decode as an image
\* with a client error (4xx) and writes no record.
C7_ClientError ==
    [][(last'.op = "process_frame" /\ ~last'.input.decodable)
          => /\ last'.status \in 400..499
             /\ UNCHANGED <<attendance_exists, attendance_rows>>]_vars

\* C8: with an empty gallery, process_frame and recognize_from_file on an
\* image that decodes raise no error, name every face "Unknown" and leave
\* the file as it is.
C8_EmptyGallery ==
    [][(/\ last'.op \in Handlers
        /\ last'.input.decodable
        /\ known_face_encodings = <<>>)
           => /\ last'.status = 200
              /\ Len(last'.names) = Len(last'.input.faces)
              /\ \A i \in DOMAIN last'.names : last'.names[i] = Unknown
              /\ UNCHANGED <<attendance_exists, attendance_rows>>]_vars

C8_Witness ==
    /\ phase = "serving"
    /\ known_face_encodings = <<>>
    /\ last.op = "recognize_from_file"
    /\ last.status = 200
    /\ last.names = <<Unknown>>

\* the matching policy: the first of the gallery entries nearest to the
\* face, if it is within the tolerance
PolicyName(encodings, names, face_encoding) ==
    LET d(i) == distance_sq(encodings[i], face_encoding)
        nearest == {i \in DOMAIN encodings : \A j \in DOMAIN encodings : d(i) <= d(j)}
        first == CHOOSE i \in nearest : \A j \in nearest : i <= j
    IN  IF d(first) <= Tolerance * Tolerance THEN names[first] ELSE Unknown

\* C9: with a non-empty gallery, process_frame and recognize_from_file both
\* give a face the name of the nearest gallery entry, the first of them on
\* a tie, if it is within the tolerance, and "Unknown" otherwise.
C9_MatchingPolicy ==
    (phase = "serving" /\ known_face_encodings # <<>>)
        => /\ \A q \in FaceVectors :
                LET expected == PolicyName(known_face_encodings, known_face_names, q)
                IN  /\ process_frame_name(known_face_encodings, known_face_names, q)
                          = expected
                    /\ recognize_from_file_name(known_face_encodings, known_face_names, q)
                          = expected
           /\ (last.op \in Handlers /\ last.status = 200)
                => /\ Len(last.names) = Len(last.input.faces)
                   /\ \A i \in DOMAIN last.names :
                         last.names[i] = PolicyName(known_face_encodings, known_face_names,
                                                    last.input.faces[i])

C9_Witness ==
    /\ last.op = "process_frame"
    /\ last.status = 200
    /\ \E i \in DOMAIN last.names :
         \E j, k \in DOMAIN known_face_encodings :
            LET q == last.input.faces[i]
            IN  /\ j < k
                /\ distance_sq(known_face_encodings[j], q) <= Tolerance * Tolerance
                /\ distance_sq(known_face_encodings[k], q)
                      < distance_sq(known_face_encodings[j], q)
                /\ known_face_names[j] # known_face_names[k]
                /\ last.names[i] = known_face_names[k]

\* a filename has a recognised extension when what starts at its last dot
\* is, in lower case, one of the image extensions
HasImageExtension(file) ==
    /\ rfind_dot(file) > 0
    /\ lower(SubSeq(file, rfind_dot(file), Len(file))) \in ImageExtensions

Loadable(f) ==
    HasImageExtension(f.file) /\ ~f.result.raises /\ Len(f.result.encodings) >= 1

====
